---- MODULE Spec2Model ----
(***************************************************************************)
(* Model of django_etesync/serializers.py: the revision / etag / stoken    *)
(* engine.  Every create()/update() of a serializer runs inside            *)
(* transaction.atomic(); a transaction is a process that buffers its       *)
(* writes and publishes them at Commit.  Reads see committed rows (READ    *)
(* COMMITTED) plus the transaction's own writes.  A transaction is cut     *)
(* into steps where another one can interleave with a visible effect: the  *)
(* etag test, the locking read of the current revision, the allocation of  *)
(* a stoken, the commit.                                                   *)
(***************************************************************************)
EXTENDS Integers, Sequences, FiniteSets, TLC

\* ---------------------------------------------------------------- bounds
\* stokens handed out in a run of Spec / of the narrower specifications
MaxStoken == 3
MaxDeepStoken == 4
MaxWideStoken == 6
MaxLiveStoken == 5

\* ------------------------------------------------------------ input sets
Procs == {"w1", "w2"}
Users == {"alice", "bob"}
Owners == {"alice"}
CollectionUids == {"c1"}
TwoCollectionUids == {"c1", "c2"}
InvitationUids == {"i1", "i2"}
ItemUids == {"a"}
Keys == {"key1"}
ChunkUid == "k"
ChunkBytes == "bytes"

\* python None for an etag / a revision uid
NoEtag == 0
\* python None for the uid of a collection's main item
NoUid == "None"

READ_ONLY == "READ_ONLY"
READ_WRITE == "READ_WRITE"
ADMIN == "ADMIN"
AccessLevels == {READ_ONLY, READ_WRITE, ADMIN}

\* chunk references of a revision payload: (uid,) or (uid, content)
ChunkRef == <<ChunkUid>>
ChunkInline == <<ChunkUid, ChunkBytes>>
Payloads == {<<ChunkInline>>, <<ChunkRef>>}
InlinePayloads == {<<ChunkInline>>}
\* a reference to a chunk uid that is never stored, after an inline chunk
UnknownRef == <<"unknown">>
UnknownPayloads == {<<ChunkInline>>, <<ChunkInline, UnknownRef>>}

VARIABLES
  collections,  \* committed Collection rows
  items,        \* committed CollectionItem rows
  revisions,    \* committed CollectionItemRevision rows
  chunks,       \* committed CollectionItemChunk rows
  members,      \* committed CollectionMember rows
  invitations,  \* committed CollectionInvitation rows
  stokenSeq,    \* last id handed out by Stoken.objects.create()
  txn,          \* per process: the open transaction (position and write buffer)
  result,       \* outcome of the operation that finished in the last step
  history,      \* stokens of the committed mutations, in commit order
  lastSeen,     \* polling client: its stoken cursor
  seen          \* polling client: stokens received so far

vars == <<collections, items, revisions, chunks, members, invitations,
          stokenSeq, txn, result, history, lastSeen, seen>>

db == <<collections, items, revisions, chunks, members, invitations>>

\* ------------------------------------------------------------- helpers
Max(S) == CHOOSE x \in S : \A y \in S : y <= x

NoResult == [status |-> "none", expected |-> NoEtag, got |-> NoEtag]
Ok == [status |-> "ok", expected |-> NoEtag, got |-> NoEtag]
Err(s) == [status |-> s, expected |-> NoEtag, got |-> NoEtag]
WrongEtag(cur, etag) == [status |-> "WrongEtag", expected |-> cur, got |-> etag]

Idle == [pc |-> "idle", op |-> "none", col |-> "", item |-> 0, etag |-> NoEtag,
         validate |-> FALSE, payload |-> <<>>, rev |-> 0, locked |-> 0, waitingOn |-> 0,
         owner |-> "", key |-> "",
         newCollections |-> {}, newItems |-> {}, newRevisions |-> {},
         newChunks |-> {}, newMembers |-> {}, updMembers |-> {},
         delInvitations |-> {},
         stokens |-> <<>>]

\* revision uids are chosen by the client (random 256 bit): always fresh
UsedRevs == {r.uid : r \in revisions} \cup {txn[w].rev : w \in Procs}
FreshRev == CHOOSE n \in 1..(Cardinality(UsedRevs) + 1) : n \notin UsedRevs

\* item.revisions.filter(current=True)
CurrentRevs(revs, item) == {r \in revs : r.item = item /\ r.current}

\* models.CollectionItem.etag: uid of the current revision
ItemEtag(revs, item) ==
  IF CurrentRevs(revs, item) = {} THEN NoEtag
  ELSE (CHOOSE r \in CurrentRevs(revs, item) : TRUE).uid

\* row locks held by open transactions (select_for_update)
LockedBy(w) == txn[w].locked
IsLockedTable(rev, me) == \E w \in Procs \ {me} : LockedBy(w) # 0

IsLocked(rev, me) == \E w \in Procs \ {me} : LockedBy(w) = rev

\* Stoken.objects.create(): a fresh id, greater than every earlier one
AllocStoken(seq) == seq + 1

\* ---------------------------------------------- process_revisions_for_item
\* the loop over the chunk references (lines 27-39); rows visible to the
\* transaction are the committed ones and the ones it wrote itself
ResolveChunks(item, payload, revuid, visible) ==
  LET step[i \in 0..Len(payload)] ==
        IF i = 0 THEN [err |-> "none", new |-> {}, objs |-> <<>>]
        ELSE LET p == step[i - 1]
                 c == payload[i]
                 found == {r \in visible \cup p.new : r.uid = c[1]}
             IN IF p.err # "none" THEN p
                ELSE IF Len(c) > 1
                  THEN LET row == [uid |-> c[1], content |-> c[2], item |-> item,
                                   rev |-> revuid, pos |-> i]
                       IN [err |-> "none", new |-> p.new \cup {row},
                           objs |-> Append(p.objs, row)]
                ELSE IF found = {} THEN [p EXCEPT !.err = "DoesNotExist"]
                ELSE IF Cardinality(found) > 1
                  THEN [p EXCEPT !.err = "MultipleObjectsReturned"]
                ELSE [p EXCEPT !.objs = Append(p.objs, CHOOSE r \in found : TRUE)]
  IN step[Len(payload)]

\* lines 41-46: the new revision row (current defaults to True) with the
\* fields of revision_data (deleted stands for them: meta is copied by the
\* same statement) and its RevisionChunkRelation rows
NewRevision(item, revuid, stoken, etag, deleted, objs) ==
  [uid |-> revuid, item |-> item, stoken |-> stoken, current |-> TRUE,
   etag |-> etag, deleted |-> deleted,
   chunks |-> [i \in 1..Len(objs) |-> <<objs[i].rev, objs[i].pos>>]]

\* the etag a revision was checked against when it was written ("unchecked"
\* when no etag test was made): kept with the row to state the claims
Unchecked == -1
Basis(validate_etag, etag) == IF validate_etag THEN etag ELSE Unchecked

\* the whole of process_revisions_for_item applied to a transaction record;
\* nothing reads revision_data's deleted flag before line 43
ProcessRevisions(t, seq, deleted) ==
  LET res == ResolveChunks(t.item, t.payload, t.rev, chunks \cup t.newChunks)
      s == AllocStoken(seq)
  IN IF res.err # "none" THEN [err |-> res.err, t |-> t, seq |-> seq]
     ELSE [err |-> "none", seq |-> s,
           t |-> [t EXCEPT !.payload = <<>>,
                           !.newChunks = @ \cup res.new,
                           !.newRevisions = @ \cup {NewRevision(t.item, t.rev, s, Basis(t.validate, t.etag), deleted, res.objs)},
                           !.stokens = Append(@, s)]]

EtagRejectsNever(validate_etag, cur_etag, etag) == FALSE

\* line 137 / 229: the etag gate
EtagRejects(validate_etag, cur_etag, etag) == validate_etag /\ cur_etag # etag

\* ----------------------------------------------------------- transactions
\* leaving transaction.atomic() by an exception: the write buffer of the
\* transaction record t is dropped, its locks are released
RollbackKeepsItem(w, t, res) ==
  /\ txn' = [txn EXCEPT ![w] = Idle]
  /\ result' = res
  /\ items' = items \cup t.newItems
  /\ UNCHANGED <<collections, revisions, chunks, members, invitations,
                 history, lastSeen, seen>>

RollbackKeepsDemotion(w, t, res) ==
  /\ txn' = [txn EXCEPT ![w] = Idle]
  /\ result' = res
  /\ revisions' = {IF r.uid = t.locked THEN [r EXCEPT !.current = FALSE] ELSE r :
                     r \in revisions}
  /\ UNCHANGED <<collections, items, chunks, members, invitations,
                 history, lastSeen, seen>>

Rollback(w, t, res) ==
  /\ txn' = [txn EXCEPT ![w] = Idle]
  /\ result' = res
  /\ UNCHANGED <<collections, items, revisions, chunks, members, invitations,
                 history, lastSeen, seen>>

Init ==
  /\ collections = {}
  /\ items = {}
  /\ revisions = {}
  /\ chunks = {}
  /\ members = {}
  /\ invitations = {}
  /\ stokenSeq = 0
  /\ txn = [w \in Procs |-> Idle]
  /\ result = NoResult
  /\ history = <<>>
  /\ lastSeen = 0
  /\ seen = {}

\* a step inside a transaction: only the transaction record (and, with
\* ProcessRevisions, the stoken sequence) changes
Continue(w, t) ==
  /\ txn' = [txn EXCEPT ![w] = t]
  /\ result' = NoResult
  /\ UNCHANGED <<db, history, lastSeen, seen>>

\* ------------------------------------------- CollectionSerializer.create
StokenNotNoneIgnored(etag) == FALSE

\* lines 205-206: a new collection must come with no etag
StokenNotNone(etag) == etag # NoEtag

\* lines 199-212: etag test, Collection row, main item, first revision.
\* The collection uid is the client's and is fresh.
CollectionCreate(w, uid, owner, etag, key, payload, limit) ==
  /\ txn[w].pc = "idle"
  /\ uid \notin {c.id : c \in collections}
  /\ \A v \in Procs : \A c \in txn[v].newCollections : c.id # uid
  /\ LET rev == FreshRev
         t0 == [Idle EXCEPT !.op = "colcreate", !.item = rev, !.etag = etag,
                            !.validate = TRUE,
                            !.payload = payload, !.rev = rev,
                            !.owner = owner, !.key = key,
                            !.newCollections = {[id |-> uid, owner |-> owner]},
                            !.newItems = {[id |-> rev, uid |-> NoUid, col |-> uid]}]
         pr == ProcessRevisions(t0, stokenSeq, FALSE)
     IN IF StokenNotNone(etag)
          THEN Rollback(w, Idle, Err("ValidationError")) /\ UNCHANGED stokenSeq
        ELSE IF pr.err # "none"
          THEN Rollback(w, t0, Err(pr.err)) /\ UNCHANGED stokenSeq
        ELSE /\ stokenSeq < limit - 1
             /\ Continue(w, [pr.t EXCEPT !.pc = "member"])
             /\ stokenSeq' = pr.seq

OwnerMemberReadOnly(col, owner, encryption_key, stoken) ==
  [col |-> col, user |-> owner, accessLevel |-> READ_ONLY,
   encryptionKey |-> encryption_key, stoken |-> stoken]

\* lines 214-219: the CollectionMember row of the owner
OwnerMember(col, owner, encryption_key, stoken) ==
  [col |-> col, user |-> owner, accessLevel |-> ADMIN,
   encryptionKey |-> encryption_key, stoken |-> stoken]

\* lines 214-219: the owner's ADMIN membership with its own stoken
CollectionCreateMember(w) ==
  /\ txn[w].pc = "member"
  /\ LET t == txn[w]
         s == AllocStoken(stokenSeq)
         m == OwnerMember((CHOOSE c \in t.newCollections : TRUE).id, t.owner, t.key, s)
     IN /\ Continue(w, [t EXCEPT !.pc = "written", !.newMembers = {m},
                                 !.stokens = Append(@, s)])
        /\ stokenSeq' = s

\* ---------------------------------------- CollectionItemSerializer.create
\* lines 126-138: get_or_create(uid=uid) and the etag test.  The lookup is by
\* uid alone, whatever the collection; the sources show no constraint that
\* makes an item uid unique, so two transactions that both miss the row both
\* create one, and a later lookup then finds two rows.
ItemCreate(w, c, uid, etag, validate, payload) ==
  /\ txn[w].pc = "idle"
  /\ c \in collections
  /\ LET found == {i \in items : i.uid = uid}
         rev == FreshRev
         created == found = {}
         instance == IF created THEN [id |-> rev, uid |-> uid, col |-> c.id]
                     ELSE CHOOSE i \in found : TRUE
         cur_etag == IF created THEN NoEtag ELSE ItemEtag(revisions, instance.id)
         t == [Idle EXCEPT !.op = "item", !.col = c.id, !.item = instance.id,
                           !.etag = etag, !.validate = validate,
                           !.payload = payload, !.rev = rev,
                           !.newItems = IF created THEN {instance} ELSE {},
                           !.pc = IF created THEN "process" ELSE "select"]
     IN IF Cardinality(found) > 1
          THEN Rollback(w, Idle, Err("MultipleObjectsReturned"))
        ELSE IF EtagRejects(validate, cur_etag, etag)
          THEN Rollback(w, t, WrongEtag(cur_etag, etag))
        ELSE Continue(w, t)
  /\ UNCHANGED stokenSeq

\* ------------------------------------- CollectionItemDepSerializer.validate
DepOutcome(status, uid, cur_etag, etag) ==
  [status |-> status, expected |-> cur_etag, got |-> etag, uid |-> uid]

DepResultIgnoresEtag(uid, etag) ==
  LET found == {i \in items : i.uid = uid}
  IN IF found = {} THEN DepOutcome("DoesNotExist", uid, NoEtag, etag)
     ELSE IF Cardinality(found) > 1
       THEN DepOutcome("MultipleObjectsReturned", uid, NoEtag, etag)
     ELSE DepOutcome("ok", uid, etag, etag)

\* lines 163-169: objects.get(uid=...), then item.etag against the etag sent
DepResult(uid, etag) ==
  LET found == {i \in items : i.uid = uid}
      item == CHOOSE i \in found : TRUE
      cur_etag == ItemEtag(revisions, item.id)
  IN IF found = {} THEN DepOutcome("DoesNotExist", uid, NoEtag, etag)
     ELSE IF Cardinality(found) > 1
       THEN DepOutcome("MultipleObjectsReturned", uid, NoEtag, etag)
     ELSE IF cur_etag # etag THEN DepOutcome("WrongEtag", uid, cur_etag, etag)
     ELSE DepOutcome("ok", uid, cur_etag, etag)

\* the validation reads committed rows and writes nothing
DepValidate(uid, etag) ==
  /\ result' = DepResult(uid, etag)
  /\ UNCHANGED <<db, stokenSeq, txn, history, lastSeen, seen>>

\* ------------------------------------------- CollectionSerializer.update
\* lines 225-232: the etag test against instance.etag, then the main item
CollectionUpdate(w, c, etag, payload) ==
  /\ txn[w].pc = "idle"
  /\ c \in collections
  /\ LET main_item == CHOOSE i \in items : i.col = c.id /\ i.uid = NoUid
         cur_etag == ItemEtag(revisions, main_item.id)
         t == [Idle EXCEPT !.op = "colupdate", !.item = main_item.id,
                           !.etag = etag, !.validate = TRUE,
                           !.payload = payload, !.rev = FreshRev, !.pc = "select"]
     IN IF EtagRejects(TRUE, cur_etag, etag)
          THEN Rollback(w, t, WrongEtag(cur_etag, etag))
        ELSE Continue(w, t)
  /\ UNCHANGED stokenSeq

\* revisions.filter(current=True).select_for_update().first(), then
\* current = None and save(): the row is locked and its demotion buffered
TakeLock(w, rev) ==
  /\ Continue(w, [txn[w] EXCEPT !.pc = "process", !.locked = rev, !.waitingOn = 0])
  /\ UNCHANGED stokenSeq

\* lines 143-145 / 235-237 when nobody holds the row
SelectForUpdate(w) ==
  /\ txn[w].pc = "select"
  /\ \E r \in CurrentRevs(revisions, txn[w].item) :
       /\ ~IsLocked(r.uid, w)
       /\ TakeLock(w, r.uid)

\* the row is locked by another transaction: the query waits for it
SelectBlocks(w) ==
  /\ txn[w].pc = "select"
  /\ \E r \in CurrentRevs(revisions, txn[w].item) :
       /\ IsLocked(r.uid, w)
       /\ Continue(w, [txn[w] EXCEPT !.pc = "blocked", !.waitingOn = r.uid])
  /\ UNCHANGED stokenSeq

\* the holder rolled back: the row is still the current one
SelectWakesSame(w) ==
  /\ txn[w].pc = "blocked"
  /\ ~IsLocked(txn[w].waitingOn, w)
  /\ \E r \in CurrentRevs(revisions, txn[w].item) :
       /\ r.uid = txn[w].waitingOn
       /\ TakeLock(w, r.uid)

\* the holder committed and the database re-checks current=True on the row it
\* waited for (PostgreSQL): no row, first() is None, line 144 / 236 raises
SelectWakesEmpty(w) ==
  /\ txn[w].pc = "blocked"
  /\ ~IsLocked(txn[w].waitingOn, w)
  /\ \A r \in CurrentRevs(revisions, txn[w].item) : r.uid # txn[w].waitingOn
  /\ Rollback(w, txn[w], Err("AttributeError"))
  /\ UNCHANGED stokenSeq

\* the holder committed and the locking read returns the latest committed
\* current row (InnoDB)
SelectWakesNewer(w) ==
  /\ txn[w].pc = "blocked"
  /\ ~IsLocked(txn[w].waitingOn, w)
  /\ \E r \in CurrentRevs(revisions, txn[w].item) :
       /\ r.uid # txn[w].waitingOn
       /\ ~IsLocked(r.uid, w)
       /\ TakeLock(w, r.uid)

\* line 147 / 239: process_revisions_for_item(instance, revision_data)
Process(w, limit, deleted) ==
  /\ txn[w].pc = "process"
  /\ LET pr == ProcessRevisions(txn[w], stokenSeq, deleted)
     IN IF pr.err # "none"
          THEN Rollback(w, txn[w], Err(pr.err)) /\ UNCHANGED stokenSeq
        ELSE /\ stokenSeq < limit
             /\ Continue(w, [pr.t EXCEPT !.pc = "written"])
             /\ stokenSeq' = pr.seq

ApplyRevisionsKeepCurrent(revs, t) == revs \cup t.newRevisions

ApplyRevisionsDemotesNew(revs, t) ==
  revs \cup {IF t.locked # 0 THEN [n EXCEPT !.current = FALSE] ELSE n :
               n \in t.newRevisions}

ApplyRevisionsDropsOld(revs, t) ==
  {r \in revs : r.uid # t.locked} \cup t.newRevisions

\* the rows a transaction's writes leave when they are applied to the
\* committed revisions: the locked row demoted, the new row added
ApplyRevisions(revs, t) ==
  {IF r.uid = t.locked THEN [r EXCEPT !.current = FALSE] ELSE r : r \in revs}
    \cup t.newRevisions

\* instance.save() of an existing member replaces its row; create() adds one
ApplyMembers(mems, t) ==
  {m \in mems : \A n \in t.updMembers : ~(n.col = m.col /\ n.user = m.user)}
    \cup t.updMembers \cup t.newMembers

\* ---------------------------------------- CollectionInvitationSerializer
\* lines 272-283: the names of the declared fields; the invitee is declared
\* as username (source user)
InvitationFieldNames ==
  {"username", "uid", "collection", "signedEncryptionKey", "accessLevel",
   "fromPubkey", "version"}

\* a method validate_<name> is run for the declared field <name>: the
\* method of line 285 is validate_user
ValidateUserRuns == "user" \in InvitationFieldNames

\* lines 285-290: inviting yourself is refused where the method runs
ValidateUserRejects(request_user, value) == ValidateUserRuns /\ request_user = value

\* lines 293-299: the inviting member is looked up, the row is created; the
\* invitation uid is the client's and is fresh
Invite(c, from, to, level, uid, key) ==
  /\ c \in collections
  /\ \E m \in members : m.col = c.id /\ m.user = from
  /\ \A i \in invitations : i.uid # uid
  /\ \A w \in Procs : \A i \in txn[w].delInvitations : i.uid # uid
  /\ IF ValidateUserRejects(from, to)
       THEN /\ result' = Err("ValidationError")
            /\ UNCHANGED invitations
       ELSE /\ invitations' = invitations \cup
                 {[uid |-> uid, col |-> c.id, user |-> to, accessLevel |-> level,
                   fromMember |-> from, signedEncryptionKey |-> key]}
            /\ result' = Ok
  /\ UNCHANGED <<collections, items, revisions, chunks, members, stokenSeq, txn,
                 history, lastSeen, seen>>

\* --------------------------------------- InvitationAcceptSerializer.create
\* the unique (collection, user) constraint of CollectionMember
MemberExists(mems, col, user) == \E m \in mems : m.col = col /\ m.user = user

AcceptedMemberAdmin(invitation, encryption_key, stoken) ==
  [col |-> invitation.col, user |-> invitation.user, accessLevel |-> ADMIN,
   encryptionKey |-> encryption_key, stoken |-> stoken]

\* lines 319-325: the CollectionMember row made from the invitation
AcceptedMember(invitation, encryption_key, stoken) ==
  [col |-> invitation.col, user |-> invitation.user,
   accessLevel |-> invitation.accessLevel,
   encryptionKey |-> encryption_key, stoken |-> stoken]

\* lines 315-327: the stoken is created first (it is an argument of the
\* member's create), then the member is inserted and the invitation deleted.
\* An insert of the same (collection, user) by an open transaction makes this
\* one wait on the unique index.
AcceptInvitation(w, invitation, encryption_key, limit) ==
  /\ txn[w].pc = "idle"
  /\ invitation \in invitations
  /\ \A v \in Procs \ {w} : ~MemberExists(txn[v].newMembers, invitation.col, invitation.user)
  /\ stokenSeq < limit
  /\ LET s == AllocStoken(stokenSeq)
         t == [Idle EXCEPT !.op = "accept", !.pc = "written", !.key = encryption_key,
                           !.newMembers = {AcceptedMember(invitation, encryption_key, s)},
                           !.delInvitations = {invitation},
                           !.stokens = <<s>>]
     IN /\ stokenSeq' = s
        /\ IF MemberExists(members, invitation.col, invitation.user)
             THEN Rollback(w, t, Err("IntegrityError"))
             ELSE Continue(w, t)

\* ----------------------------------------- CollectionMemberSerializer.update
\* lines 259-264: instance is the row the caller loaded before the
\* transaction began; only a changed accessLevel gets a stoken, and the
\* stoken is created before the row is written
MemberUpdate(w, instance, access_level, limit) ==
  /\ txn[w].pc = "idle"
  /\ instance \in members
  /\ IF instance.accessLevel # access_level
       THEN /\ stokenSeq < limit
            /\ LET s == AllocStoken(stokenSeq)
                   t == [Idle EXCEPT !.op = "member", !.pc = "save",
                                     !.updMembers = {[instance EXCEPT !.stoken = s,
                                                        !.accessLevel = access_level]},
                                     !.stokens = <<s>>]
               IN Continue(w, t) /\ stokenSeq' = s
       ELSE /\ result' = Ok
            /\ UNCHANGED <<db, stokenSeq, txn, history, lastSeen, seen>>

\* line 265: instance.save() is an UPDATE of the row by its key; it waits
\* while another transaction's uncommitted UPDATE holds the row
MemberSave(w) ==
  /\ txn[w].pc = "save"
  /\ \A v \in Procs \ {w} : \A n \in txn[w].updMembers :
       ~(txn[v].pc = "written" /\ MemberExists(txn[v].updMembers, n.col, n.user))
  /\ Continue(w, [txn[w] EXCEPT !.pc = "written"])
  /\ UNCHANGED stokenSeq

\* ------------------------------------------------------ the polling client
\* everything with stoken > last_seen, then the new high-water mark
VisibleStokens == {r.stoken : r \in revisions} \cup {m.stoken : m \in members}

Poll ==
  /\ \E s \in VisibleStokens : s > lastSeen
  /\ seen' = seen \cup {s \in VisibleStokens : s > lastSeen}
  /\ lastSeen' = Max(VisibleStokens)
  /\ result' = NoResult
  /\ UNCHANGED <<db, stokenSeq, txn, history>>

\* leaving transaction.atomic() normally: the write buffer becomes visible
Commit(w) ==
  /\ txn[w].pc = "written"
  /\ LET t == txn[w]
     IN /\ collections' = collections \cup t.newCollections
        /\ items' = items \cup t.newItems
        /\ revisions' = ApplyRevisions(revisions, t)
        /\ chunks' = chunks \cup t.newChunks
        /\ members' = ApplyMembers(members, t)
        /\ invitations' = invitations \ t.delInvitations
        /\ history' = history \o t.stokens
  /\ txn' = [txn EXCEPT ![w] = Idle]
  /\ result' = Ok
  /\ UNCHANGED <<stokenSeq, lastSeen, seen>>

\* etags a client can send: none, or the uid of a revision it has fetched
Etags == {NoEtag} \cup {r.uid : r \in revisions}

\* the revision engine: collections, items and their revisions
Next ==
  \/ \E w \in Procs, u \in CollectionUids, o \in Owners, e \in {NoEtag, 1}, k \in Keys,
          p \in Payloads : CollectionCreate(w, u, o, e, k, p, MaxStoken)
  \/ \E w \in Procs : CollectionCreateMember(w)
  \/ \E w \in Procs, c \in collections, u \in ItemUids, e \in Etags, v \in BOOLEAN,
          p \in Payloads : ItemCreate(w, c, u, e, v, p)
  \/ \E w \in Procs, c \in collections, e \in Etags, p \in Payloads :
       CollectionUpdate(w, c, e, p)
  \/ \E w \in Procs : SelectForUpdate(w)
  \/ \E w \in Procs : SelectBlocks(w)
  \/ \E w \in Procs : SelectWakesSame(w)
  \/ \E w \in Procs : SelectWakesEmpty(w)
  \/ \E w \in Procs : SelectWakesNewer(w)
  \/ \E w \in Procs : Process(w, MaxStoken, FALSE)
  \/ \E w \in Procs : Commit(w)

Spec == Init /\ [][Next]_vars

\* the same operations with inline chunks only, one stoken further
NextRace ==
  \/ \E w \in Procs, u \in CollectionUids, o \in Owners, k \in Keys, p \in InlinePayloads :
       CollectionCreate(w, u, o, NoEtag, k, p, MaxDeepStoken)
  \/ \E w \in Procs : CollectionCreateMember(w)
  \/ \E w \in Procs, c \in collections, u \in ItemUids, e \in Etags, v \in BOOLEAN,
          p \in InlinePayloads : ItemCreate(w, c, u, e, v, p)
  \/ \E w \in Procs, c \in collections, e \in Etags, p \in InlinePayloads :
       CollectionUpdate(w, c, e, p)
  \/ \E w \in Procs : SelectForUpdate(w)
  \/ \E w \in Procs : SelectBlocks(w)
  \/ \E w \in Procs : SelectWakesEmpty(w)
  \/ \E w \in Procs : SelectWakesNewer(w)
  \/ \E w \in Procs : Process(w, MaxDeepStoken, FALSE)
  \/ \E w \in Procs : Commit(w)

SpecRace == Init /\ [][NextRace]_vars

\* the writers of NextRace next to a client that polls
NextSync ==
  \/ NextRace
  \/ Poll

SpecSync == Init /\ [][NextSync]_vars

\* collections with their memberships and invitations
NextMembers ==
  \/ \E w \in Procs, u \in CollectionUids, o \in Owners, k \in Keys, p \in InlinePayloads :
       CollectionCreate(w, u, o, NoEtag, k, p, MaxDeepStoken)
  \/ \E w \in Procs : CollectionCreateMember(w)
  \/ \E c \in collections, from \in Users, to \in Users, l \in AccessLevels,
          u \in InvitationUids, k \in Keys : Invite(c, from, to, l, u, k)
  \/ \E w \in Procs, i \in invitations, k \in Keys :
       AcceptInvitation(w, i, k, MaxDeepStoken)
  \/ \E w \in Procs, m \in members, l \in AccessLevels :
       MemberUpdate(w, m, l, MaxDeepStoken)
  \/ \E w \in Procs : MemberSave(w)
  \/ \E w \in Procs : Commit(w)

SpecMembers == Init /\ [][NextMembers]_vars

\* item upserts that write live and deleted revisions
NextHistory ==
  \/ \E w \in Procs, u \in CollectionUids, o \in Owners, k \in Keys, p \in InlinePayloads :
       CollectionCreate(w, u, o, NoEtag, k, p, MaxDeepStoken)
  \/ \E w \in Procs : CollectionCreateMember(w)
  \/ \E w \in Procs, c \in collections, u \in ItemUids, e \in Etags, v \in BOOLEAN,
          p \in InlinePayloads : ItemCreate(w, c, u, e, v, p)
  \/ \E w \in Procs : SelectForUpdate(w)
  \/ \E w \in Procs : SelectBlocks(w)
  \/ \E w \in Procs : SelectWakesEmpty(w)
  \/ \E w \in Procs : SelectWakesNewer(w)
  \/ \E w \in Procs, d \in BOOLEAN : Process(w, MaxDeepStoken, d)
  \/ \E w \in Procs : Commit(w)

SpecHistory == Init /\ [][NextHistory]_vars

\* upserts and collection updates whose chunk references may be unknown
NextAbort ==
  \/ \E w \in Procs, u \in CollectionUids, o \in Owners, k \in Keys, p \in InlinePayloads :
       CollectionCreate(w, u, o, NoEtag, k, p, MaxDeepStoken)
  \/ \E w \in Procs : CollectionCreateMember(w)
  \/ \E w \in Procs, c \in collections, u \in ItemUids, e \in Etags,
          p \in UnknownPayloads : ItemCreate(w, c, u, e, FALSE, p)
  \/ \E w \in Procs, c \in collections, e \in Etags, p \in UnknownPayloads :
       CollectionUpdate(w, c, e, p)
  \/ \E w \in Procs : SelectForUpdate(w)
  \/ \E w \in Procs : SelectBlocks(w)
  \/ \E w \in Procs : SelectWakesSame(w)
  \/ \E w \in Procs : SelectWakesEmpty(w)
  \/ \E w \in Procs : SelectWakesNewer(w)
  \/ \E w \in Procs : Process(w, MaxDeepStoken, FALSE)
  \/ \E w \in Procs : Commit(w)

SpecAbort == Init /\ [][NextAbort]_vars

\* one client at a time, two collections
NextIsolation ==
  \/ \E u \in TwoCollectionUids, o \in Owners, e \in {NoEtag, 1}, k \in Keys,
          p \in InlinePayloads : CollectionCreate("w1", u, o, e, k, p, MaxWideStoken)
  \/ CollectionCreateMember("w1")
  \/ \E c \in collections, u \in ItemUids, e \in Etags, v \in BOOLEAN,
          p \in InlinePayloads : ItemCreate("w1", c, u, e, v, p)
  \/ SelectForUpdate("w1")
  \/ Process("w1", MaxWideStoken, FALSE)
  \/ \E u \in ItemUids, e \in (Etags \ {NoEtag}) \cup {1} : DepValidate(u, e)
  \/ Commit("w1")

SpecIsolation == Init /\ [][NextIsolation]_vars

\* open transactions that have yet to create a stoken
OpenWriters == {w \in Procs : txn[w].pc \in {"member", "select", "blocked", "process"}}

\* the stoken sequence is cut at limit: a writer begins only if a stoken is
\* left for it and for every open transaction, so that the cut stops no
\* transaction that has begun
HasBudget(limit) == stokenSeq + Cardinality(OpenWriters) < limit

\* the steps of a transaction that has begun: the database and the
\* request's thread take them without waiting for a client
Step(w) ==
  \/ CollectionCreateMember(w)
  \/ SelectForUpdate(w)
  \/ SelectBlocks(w)
  \/ SelectWakesEmpty(w)
  \/ SelectWakesNewer(w)
  \/ Process(w, MaxLiveStoken, FALSE)
  \/ Commit(w)

\* writers of the main item and of an item, scheduled fairly
NextLive ==
  \/ \E w \in Procs, u \in CollectionUids, o \in Owners, k \in Keys, p \in InlinePayloads :
       CollectionCreate(w, u, o, NoEtag, k, p, MaxLiveStoken)
  \/ \E w \in Procs, c \in collections, u \in ItemUids, p \in InlinePayloads :
       HasBudget(MaxLiveStoken) /\ ItemCreate(w, c, u, NoEtag, FALSE, p)
  \/ \E w \in Procs, c \in collections, e \in Etags, p \in InlinePayloads :
       HasBudget(MaxLiveStoken) /\ CollectionUpdate(w, c, e, p)
  \/ \E w \in Procs : Step(w)

SpecLive == Init /\ [][NextLive]_vars /\ \A w \in Procs : WF_vars(Step(w))

\* ------------------------------------------------------------ properties
CommitsOp(w, op) == txn[w].op = op /\ txn[w].pc = "written" /\ txn'[w].pc = "idle"

C3_NoLostUpdate ==
  \A r1, r2 \in revisions :
    (r1.item = r2.item /\ r1.uid # r2.uid /\ r1.etag # Unchecked) => r1.etag # r2.etag

\* C4: the stokens of the committed mutations increase in commit order
C4_StokenCommitOrder ==
  \A i, j \in DOMAIN history : i < j => history[i] < history[j]

\* C5: the polling client has received every committed stoken up to its
\* cursor
C5_NoSkippedChange == \A s \in VisibleStokens : s <= lastSeen => s \in seen

\* C6: a step that rejects an upsert or a collection update for its etag
\* leaves every committed row, the stoken sequence and every open
\* transaction as they were
C6_RejectChangesNothing ==
  [][result'.status = "WrongEtag" =>
       UNCHANGED <<collections, items, revisions, chunks, members, invitations,
                   stokenSeq, history, txn>>]_vars

\* an upsert of an unknown uid was rejected for its etag
C6_Witness ==
  result.status = "WrongEtag" /\ result.expected = NoEtag /\ result.got # NoEtag

\* C7: chunks stored with the same uid and bytes are one stored chunk
C7_OneChunkPerUid ==
  \A c1, c2 \in chunks : (c1.uid = c2.uid /\ c1.content = c2.content) => c1 = c2

\* C8: an accept that meets an existing membership of the invitation's
\* (collection, user) fails with IntegrityError and changes neither the
\* memberships nor the invitations; a committing accept adds exactly one
\* membership, with the invitation's access level, the supplied key and a
\* stoken no other row has, and removes the invitation; there is never more
\* than one membership per (collection, user)
C8_AcceptStep ==
  /\ result'.status = "IntegrityError" =>
       /\ \E i \in invitations : MemberExists(members, i.col, i.user)
       /\ UNCHANGED <<members, invitations>>
  /\ \A w \in Procs : CommitsOp(w, "accept") =>
       \E i \in invitations : \E m \in members' \ members :
         /\ members' = members \cup {m}
         /\ invitations' = invitations \ {i}
         /\ ~MemberExists(members, i.col, i.user)
         /\ m.col = i.col /\ m.user = i.user
         /\ m.accessLevel = i.accessLevel
         /\ m.encryptionKey = txn[w].key
         /\ m.stoken \notin VisibleStokens

C8_OnePerPair ==
  \A m1, m2 \in members : (m1.col = m2.col /\ m1.user = m2.user) => m1 = m2

C8_AcceptInvitation == [][C8_AcceptStep]_vars /\ []C8_OnePerPair

\* an accept was refused for an existing membership while another
\* invitation of the same user had been accepted
C8_Witness ==
  /\ result.status = "IntegrityError"
  /\ \E m \in members : m.stoken > 2

\* C9: a committing create_collection adds one collection with one main item
\* (uid none), one revision on it, current and naming the collection's etag,
\* and one membership, the owner's, ADMIN, with a stoken of its own allocated
\* after the revision's; no committed state holds a part of these rows
C9_CreateStep ==
  \A w \in Procs : CommitsOp(w, "colcreate") =>
    \E c \in collections' \ collections :
      LET mains == {i \in items' : i.col = c.id}
          ms == {m \in members' : m.col = c.id}
      IN /\ Cardinality(mains) = 1
         /\ Cardinality(ms) = 1
         /\ \A i \in mains :
              LET rs == {r \in revisions' : r.item = i.id}
              IN /\ i.uid = NoUid
                 /\ Cardinality(rs) = 1
                 /\ \A r \in rs : /\ r.current
                                  /\ ItemEtag(revisions', i.id) = r.uid
                                  /\ \A m \in ms : m.stoken > r.stoken
         /\ \A m \in ms : /\ m.user = c.owner
                          /\ m.accessLevel = ADMIN
                          /\ \A r \in revisions' : r.stoken # m.stoken
                          /\ \A n \in members' : n # m => n.stoken # m.stoken

C9_Whole ==
  /\ \A c \in collections :
       /\ \E i \in items : i.col = c.id /\ i.uid = NoUid /\ CurrentRevs(revisions, i.id) # {}
       /\ \E m \in members : m.col = c.id /\ m.user = c.owner
  /\ \A i \in items : \E c \in collections : c.id = i.col
  /\ \A m \in members : \E c \in collections : c.id = m.col

C9_CreateCollection == [][C9_CreateStep]_vars /\ []C9_Whole

\* a collection with its owner's membership is committed
C9_Witness ==
  \E c \in collections : \E m \in members : m.col = c.id /\ m.user = c.owner

\* C10: a collection update commits only if the etag it supplied is the uid
\* of the main item's current revision
C10_UpdateIffEtag ==
  [][\A w \in Procs :
       CommitsOp(w, "colupdate") => txn[w].etag = ItemEtag(revisions, txn[w].item)]_vars

\* C11: no invitation exists whose invitee is the inviting member's own user
C11_NoSelfInvite == \A i \in invitations : i.user # i.fromMember

\* C12: a change of access level that names the member's present level
\* allocates no stoken; one that commits gives that member the new level and
\* a stoken greater than the one it had, and changes nothing else
C12_Step ==
  \A w \in Procs :
    /\ (txn[w].pc = "idle" /\ txn'[w].op = "member") =>
         \A n \in txn'[w].updMembers : \A m \in members :
           (m.col = n.col /\ m.user = n.user) => m.accessLevel # n.accessLevel
    /\ CommitsOp(w, "member") =>
         \E m \in members : \E n \in txn[w].updMembers :
           /\ n = [m EXCEPT !.stoken = n.stoken, !.accessLevel = n.accessLevel]
           /\ n.stoken > m.stoken
           /\ members' = (members \ {m}) \cup {n}
           /\ UNCHANGED <<collections, items, revisions, chunks, invitations>>

C12_ChangeAccessLevel == [][C12_Step]_vars

\* C13: a committed revision keeps its uid, item, stoken, deleted flag and
\* chunk list for ever and is never removed; its current flag only goes from
\* true to not-current, and only in the step that commits a new current
\* revision of the same item
C13_Step ==
  \A r \in revisions :
    /\ Cardinality({q \in revisions' : q.uid = r.uid}) = 1
    /\ \A q \in revisions' : q.uid = r.uid =>
         /\ q = [r EXCEPT !.current = q.current]
         /\ q.current => r.current
         /\ (r.current /\ ~q.current) =>
              \E n \in revisions' :
                /\ n.uid \notin {x.uid : x \in revisions}
                /\ n.item = r.item /\ n.current
         /\ (\E n \in revisions' : n.uid \notin {x.uid : x \in revisions}
                                      /\ n.item = r.item) => ~q.current

HasUnknownChunk(t) ==
  \E i \in 1..Len(t.payload) :
    /\ Len(t.payload[i]) = 1
    /\ \A c \in chunks \cup t.newChunks : c.uid # t.payload[i][1]
    /\ \A j \in 1..(i - 1) : t.payload[j][1] # t.payload[i][1]

\* C14: an upsert whose payload refers to an unknown chunk ends with
\* DoesNotExist (the unknown-chunk failure) and leaves the committed state as
\* it was: no new revision, chunk or stoken, and the revision it had locked
\* and demoted inside the transaction is still current
C14_Step ==
  \A w \in Procs :
    (txn[w].pc = "process" /\ HasUnknownChunk(txn[w]) /\ txn'[w] # txn[w]) =>
      /\ result'.status = "DoesNotExist"
      /\ txn'[w] = Idle
      /\ UNCHANGED <<db, history, stokenSeq>>
      /\ txn[w].locked # 0 =>
           \E r \in revisions' : r.uid = txn[w].locked /\ r.current

C14_UnknownChunkAborts == [][C14_Step]_vars

\* a transaction that has locked and demoted the current revision of its
\* item and is about to resolve a payload with an unknown chunk
C14_Witness ==
  \E w \in Procs :
    txn[w].pc = "process" /\ txn[w].locked # 0 /\ HasUnknownChunk(txn[w])

\* C15: creating a collection with an etag fails with ValidationError before
\* anything is written: no transaction of a creation with an etag is ever
\* open, and the step that reports the error changes no row, no stoken and
\* no transaction
C15_Step ==
  /\ \A w \in Procs :
       (txn[w].pc = "idle" /\ txn'[w].op = "colcreate") => txn'[w].etag = NoEtag
  /\ result'.status = "ValidationError" =>
       UNCHANGED <<db, history, stokenSeq, txn>>

C15_CreateWithEtag == [][C15_Step]_vars

\* a creation with an etag was just refused while another collection is
\* stored: that one is still the only collection
C15_Witness ==
  /\ result.status = "ValidationError"
  /\ Cardinality(collections) = 1 /\ Cardinality(items) = 1

\* C18: an upsert made in the context of a collection commits revisions
\* only for an item of that collection
C18_Step ==
  \A w \in Procs :
    CommitsOp(w, "item") =>
      \A n \in txn[w].newRevisions :
        \E i \in items' : i.id = n.item /\ i.col = txn[w].col

C18_CollectionIsolation == [][C18_Step]_vars

\* C16: a dependency (uid, etag) is accepted exactly when an item with
\* that uid is stored and its current revision's uid is the etag; it is
\* refused with WrongEtag (the etag conflict) exactly when the item is stored
\* with another etag, and with DoesNotExist (not found) exactly when no item has
\* the uid; the validation changes no row, stoken or transaction
C16_Outcome ==
  "uid" \in DOMAIN result =>
    LET found == {i \in items : i.uid = result.uid}
        matches == \E i \in found : ItemEtag(revisions, i.id) = result.got
    IN /\ result.status \in {"ok", "WrongEtag", "DoesNotExist"}
       /\ result.status = "ok" <=> (found # {} /\ matches)
       /\ result.status = "WrongEtag" <=> (found # {} /\ ~matches)
       /\ result.status = "DoesNotExist" <=> found = {}

C16_Step == "uid" \in DOMAIN result' => UNCHANGED <<db, stokenSeq, txn, history>>

C19_ItemHistoryOrdered ==
  \A r1 \in revisions : \A r2 \in revisions :
    (r1.item = r2.item /\ r1.uid # r2.uid) =>
      /\ r1.stoken # r2.stoken
      /\ (r1.current /\ ~r2.current) => r1.stoken > r2.stoken

\* an item with a superseded revision whose current revision is locked by a
\* writer that began before that revision was committed
C19_Witness ==
  \E w \in Procs : \E r \in revisions :
    /\ txn[w].locked # 0 /\ txn[w].locked # txn[w].etag
    /\ r.item = txn[w].item /\ ~r.current

\* C17: a row is locked by at most one transaction; a writer starts to
\* wait only for a writer of the same item; and under fair scheduling every
\* transaction that has begun ends, by commit or by abort
C17_OneHolder ==
  \A w \in Procs : \A v \in Procs \ {w} :
    txn[w].locked # 0 => txn[w].locked # txn[v].locked

C17_WaitStep ==
  \A w \in Procs :
    (txn[w].pc = "select" /\ txn'[w].pc = "blocked") =>
      \E v \in Procs \ {w} : txn[v].locked # 0 /\ txn[v].item = txn[w].item

C17_Ends == \A w \in Procs : (txn[w].pc # "idle") ~> (txn[w].pc = "idle")

C17_NoIndefiniteBlocking == []C17_OneHolder /\ [][C17_WaitStep]_vars /\ C17_Ends

\* a writer waits for the lock another writer holds
C17_Witness ==
  \E w \in Procs : \E v \in Procs \ {w} :
    txn[w].pc = "blocked" /\ txn[v].locked = txn[w].waitingOn

====
